---- MODULE Spec2Model ----
(***************************************************************************)
(* Sliding-window volumetric inference (src/predict.py, test_single_case)  *)
(* and the mean-teacher training loop with checkpoint/resume               *)
(* (src/train_semi_3Dmt_dist.py, main).                                    *)
(*                                                                         *)
(* Arrays are functions over 0-based index triples, as numpy indexes them. *)
(* The network is an opaque function of the patch: for a fixed image and   *)
(* fixed weights its output depends only on the patch offsets, so it is    *)
(* modelled as a one-hot class vote chosen by the offsets.                  *)
(*                                                                         *)
(* The training model carries the control state of main: the loop          *)
(* counters, the schedules, the best-metric fields, the loss of the last   *)
(* iteration as nan / quotient, and the checkpoint files.  The order of    *)
(* the data and the setup before line 126 are not carried                  *)
(* (args.teacher_ckpt at line 89 and img_u_s1 at line 181 are names the    *)
(* file never binds; the model follows the loop as written around them).   *)
(*                                                                         *)
(* Tensor values are carried by a third model, of one element of a         *)
(* student parameter and of the teacher parameter that mirrors it, as      *)
(* float32 numbers under the update of lines 205-210.                      *)
(***************************************************************************)
EXTENDS Integers, Sequences, FiniteSets, TLC

\* ---------------------------------------------------------------- bounds
MaxExtent == 3
MaxPatch == 2
MaxStride == 2
NumClasses == 2
MaxEpochs == 30
MaxLen == 4
MaxCrashes == 1
DistEpochs == 2
MaxParam == 11
MaxStartIters == 2
MaxEmaSteps == 1

\* pre_best_dice1, pre_best_dice2 = 0.78, 0.78, in hundredths
InitialBestDice == 78

VARIABLES
    \* ---- test_single_case (src/predict.py)
    pc,           \* position in test_single_case
    shape,        \* (w, h, d) = image.shape on entry
    patch_size,   \* patch_size argument
    stride_xy,    \* stride_xy argument
    stride_z,     \* stride_z argument
    num_classes,  \* num_classes argument
    add_pad,      \* add_pad flag
    pad,          \* <<wl_pad, wr_pad>>, <<hl_pad, hr_pad>>, <<dl_pad, dr_pad>>
    padded,       \* (ww, hh, dd) = image.shape after np.pad
    steps,        \* (sx, sy, sz)
    loop,         \* (x, y, z): the loop indices of the next patch
    offsets,      \* the (xs, ys, zs) emitted so far, in order
    cnt,          \* cnt array
    score_map,    \* score_map array: [shape, data]
    label_map,    \* label_map array: [shape, data]
    \* ---- main (src/train_semi_3Dmt_dist.py)
    world_size,   \* number of ranks
    epochs,       \* cfg['epochs']
    len_l,        \* len(trainloader_l)
    len_u,        \* len(trainloader_u)
    total_iters,  \* total_iters
    proc,         \* per rank: the local variables of main
    latest_pth,   \* the content of cp_path/latest.pth
    run,          \* how many times the job has been killed and restarted
    \* ---- one element of a parameter pair (lines 194, 202-210)
    mean_teacher  \* iters, ema_ratio, param, param_ema

inferVars == <<pc, shape, patch_size, stride_xy, stride_z, num_classes,
               add_pad, pad, padded, steps, loop, offsets, cnt, score_map,
               label_map>>

trainVars == <<world_size, epochs, len_l, len_u, total_iters, proc,
               latest_pth, run>>

vars == <<inferVars, trainVars, mean_teacher>>

\* ------------------------------------------------------------ arithmetic
Min(a, b) == IF a <= b THEN a ELSE b
Max(a, b) == IF a >= b THEN a ELSE b

\* math.ceil(a / s) for a >= 0, s > 0
Ceil(a, s) == IF a % s = 0 THEN a \div s ELSE (a \div s) + 1

\* a float: nan, or the quotient num/den with den > 0
NaN == [nan |-> TRUE, num |-> 0, den |-> 1]
Float(n, d) == [nan |-> FALSE, num |-> n, den |-> d]

\* numpy true division of an accumulated score s by a count c (s = 0
\* wherever c = 0, because both are incremented on the same slices)
NpDivide(s, c) == IF c = 0 THEN NaN ELSE Float(s, c)

Greater(a, b) == a.num * b.den > b.num * a.den

\* np.argmax over the class axis: the first nan if there is one, else the
\* first index holding the maximum
ArgMax(v, n) ==
    IF \E c \in 0..(n - 1) : v[c].nan
    THEN CHOOSE c \in 0..(n - 1) :
            v[c].nan /\ \A b \in 0..(c - 1) : ~v[b].nan
    ELSE CHOOSE c \in 0..(n - 1) :
            /\ \A b \in 0..(n - 1) : ~Greater(v[b], v[c])
            /\ \A b \in 0..(c - 1) : Greater(v[c], v[b])

\* ------------------------------------------------------------ arrays
Voxels(s) == (0..(s[1] - 1)) \X (0..(s[2] - 1)) \X (0..(s[3] - 1))

\* the array of shape s whose entry at [i, j, k] is f(i, j, k)
Array3(s, f(_, _, _)) ==
    [i \in 0..(s[1] - 1) |-> [j \in 0..(s[2] - 1) |->
        [k \in 0..(s[3] - 1) |-> f(i, j, k)]]]

\* python slice lo:hi of an axis of length n (0 <= lo <= hi)
Slice(lo, hi, n) == Min(lo, n)..(Min(hi, n) - 1)
SliceLen(lo, hi, n) == Min(hi, n) - Min(lo, n)

\* the voxels of array[xs:xs+p0, ys:ys+p1, zs:zs+p2] in an array of shape s
InWindow(i, j, k, o, p, s) ==
    /\ i \in Slice(o[1], o[1] + p[1], s[1])
    /\ j \in Slice(o[2], o[2] + p[2], s[2])
    /\ k \in Slice(o[3], o[3] + p[3], s[3])

\* ------------------------------------------------ padding (lines 73-97)
PadTotal(extent, p) == IF extent < p THEN p - extent ELSE 0
PadSplit(total) == <<total \div 2, total - (total \div 2)>>
PadOf(s, p) == [a \in 1..3 |-> PadSplit(PadTotal(s[a], p[a]))]
PaddedShape(s, pd, ap) ==
    IF ap THEN [a \in 1..3 |-> pd[a][1] + s[a] + pd[a][2]] ELSE s

\* ------------------------------------------------ tiling (lines 99-111)
\* axis 1 steps by stride_z, axes 2 and 3 by stride_xy
StrideOf(a) == IF a = 1 THEN stride_z ELSE stride_xy

\* a step count that forgets the final, flush patch
NumOffsetsNoLast(extent, p, stride) == Ceil(extent - p, stride)

NumOffsets(extent, p, stride) == Ceil(extent - p, stride) + 1

\* an offset that is not clamped to the far boundary
OffsetUnclamped(i, extent, p, stride) == stride * i

Offset(i, extent, p, stride) == Min(stride * i, extent - p)

\* the class the network votes for on the patch at offsets o
NetClass(o) == (o[1] + o[2] + o[3]) % num_classes

\* loop indices after (x, y, z) in the triple loop
NextLoop(l, s) ==
    IF l[3] + 1 < s[3] THEN <<l[1], l[2], l[3] + 1>>
    ELSE IF l[2] + 1 < s[2] THEN <<l[1], l[2] + 1, 0>>
    ELSE <<l[1] + 1, 0, 0>>

\* ------------------------------------------------ crop (lines 139-141)
\* a crop that takes the padding to be the same on both sides
CropShapeSymmetric(pd, s, ps) ==
    [a \in 1..3 |-> SliceLen(pd[a][1], ps[a] - pd[a][1], ps[a])]

CropShape(pd, s, ps) ==
    [a \in 1..3 |-> SliceLen(pd[a][1], pd[a][1] + s[a], ps[a])]

\* ============================================================ training
\* the unlabeled batch of one iteration, as a single voxel:
\* valid = (ignore_mask != 255).sum(),
\* conf = ((conf_u_w >= conf_thresh) & (ignore_mask != 255)).sum()
Batches == {b \in [valid : 0..1, conf : 0..1] : b.conf <= b.valid}

\* mean Dice of an evaluation, in hundredths: below, at and above 0.78
DiceValues == {InitialBestDice - 1, InitialBestDice, InitialBestDice + 1}

\* torch true division by a count: 0/0 is nan
TorchDivide(s, c) == IF c = 0 THEN NaN ELSE Float(s, c)

\* line 184-186: the per-voxel loss (taken as 1 on every voxel) masked by
\* confidence and ignore_mask, summed, divided by the non-ignored count
MaskedLoss(b) == TorchDivide(b.conf, b.valid)

\* line 188: (loss_x + loss_u_s) / 2.0 with loss_x = 1
CombinedLoss(lu) ==
    IF lu.nan THEN NaN ELSE Float(lu.den + lu.num, 2 * lu.den)

\* line 199: the logged mask ratio
MaskRatio(b) == TorchDivide(b.conf, b.valid)

\* the schedule evaluated at the index of the next iteration
LrOfNextIter(it, total) == Float(total - (it + 1), total)

\* line 203: cfg['lr'] * (1 - iters / total_iters) ** 0.9, kept as the
\* base (total_iters - iters) / total_iters of the power, in units of
\* cfg['lr'].  x ** 0.9 is strictly increasing on [0, 1], 0.0 ** 0.9 is
\* 0.0 and 1.0 ** 0.9 is 1.0, so two learning rates compare as their
\* bases do, the rate is cfg['lr'] exactly when the base is 1 and 0
\* exactly when the base is 0.
LrOf(it, total) == Float(total - it, total)

\* a <= b for two learning rates
LrLeq(a, b) == a.num * b.den <= b.num * a.den

\* line 205: min(1 - 1 / (iters + 1), 0.996)
EmaRatioOf(it) ==
    IF it * 1000 <= 996 * (it + 1) THEN Float(it, it + 1)
    ELSE Float(996, 1000)

\* ------------------------------------ float32 tensors (lines 207-210)
\* an element of a float32 tensor: sign * man * 2^exp, with man = 0 or
\* 2^23 <= man < 2^24 (values far from overflow and underflow)
F32Zero == [sign |-> 1, man |-> 0, exp |-> 0]

RECURSIVE BitLen(_)
BitLen(n) == IF n = 0 THEN 0 ELSE 1 + BitLen(n \div 2)

\* round to nearest, ties to even: the float32 nearest to
\* sign * (int + f) * 2^e, where 0 <= f < 1 and f > 0 iff sticky; a
\* sticky int has more than 24 bits
F32Round(sign, int, sticky, e) ==
    LET k == BitLen(int) - 24
    IN IF int = 0 THEN F32Zero
       ELSE IF k <= 0
       THEN [sign |-> sign, man |-> int * 2^(-k), exp |-> e + k]
       ELSE LET m == int \div 2^k
                rem == int % 2^k
                half == 2^(k - 1)
                up == \/ rem > half
                      \/ rem = half /\ (sticky \/ m % 2 = 1)
                m1 == IF up THEN m + 1 ELSE m
            IN IF m1 = 2^24
               THEN [sign |-> sign, man |-> 2^23, exp |-> e + k + 1]
               ELSE [sign |-> sign, man |-> m1, exp |-> e + k]

\* the binary digits of (q + rem / d) * 2^e until q has 25 of them
RECURSIVE F32Quotient(_, _, _, _, _)
F32Quotient(sign, q, rem, d, e) ==
    IF q >= 2^24 THEN F32Round(sign, q, rem # 0, e)
    ELSE F32Quotient(sign, 2 * q + (IF 2 * rem >= d THEN 1 ELSE 0),
                     (2 * rem) % d, d, e - 1)

\* the float32 a python float of value n / d (d > 0) becomes as the scalar
\* operand of a float32 tensor.  The python float is itself the double
\* nearest to n / d; for the quotients of this module both round to the
\* same float32.
ToFloat32(n, d) ==
    IF n = 0 THEN F32Zero
    ELSE LET a == IF n < 0 THEN -n ELSE n
         IN F32Quotient(IF n < 0 THEN -1 ELSE 1, a \div d, a % d, d, 0)
\* x * y on float32 tensors: the 48-bit product of the mantissas, from
\* 12-bit halves, rounded once
F32Mul(x, y) ==
    IF x.man = 0 \/ y.man = 0 THEN F32Zero
    ELSE LET ah == x.man \div 4096
             al == x.man % 4096
             bh == y.man \div 4096
             bl == y.man % 4096
             mid == ah * bl + al * bh
             lo == al * bl + (mid % 4096) * 4096
             hi == ah * bh + (mid \div 4096) + (lo \div 2^24)
             lo24 == lo % 2^24
         IN F32Round(x.sign * y.sign, hi * 64 + (lo24 \div 2^18),
                     lo24 % 2^18 # 0, x.exp + y.exp + 18)

\* x + y on float32 tensors: the operand of larger magnitude keeps up to 6
\* guard bits, the other is aligned to it, and the sum is rounded once
F32Add(x, y) ==
    IF x.man = 0 THEN y
    ELSE IF y.man = 0 THEN x
    ELSE LET xBig == x.exp > y.exp \/ (x.exp = y.exp /\ x.man >= y.man)
             big == IF xBig THEN x ELSE y
             small == IF xBig THEN y ELSE x
             d == big.exp - small.exp
             g == Min(d, 6)
             sh == d - g
             a == big.man * 2^g
             b == IF sh > 24 THEN 0 ELSE small.man \div 2^sh
             sticky == IF sh > 24 THEN TRUE ELSE small.man % 2^sh # 0
         IN IF big.sign = small.sign
            THEN F32Round(big.sign, a + b, sticky, small.exp + sh)
            ELSE F32Round(big.sign, IF sticky THEN a - b - 1 ELSE a - b,
                          sticky, small.exp + sh)

\* lines 207-210: param_ema * ema_ratio + param.detach() * (1 - ema_ratio),
\* copied into param_ema.  r32 and q32 are the python floats ema_ratio and
\* 1 - ema_ratio as float32 scalars; each product and the sum are float32
\* tensors.
EmaUpdate(param_ema_, param_, r32, q32) ==
    F32Add(F32Mul(param_ema_, r32), F32Mul(param_, q32))

\* line 224: iter_num >= (0.7 * total_iters) and epoch % 5 == 0.  The
\* double 0.7 is below 7/10 by 0.4 * 2^-53, so the rounded product never
\* exceeds 7 * total_iters / 10 when that is an integer, and is within
\* 2^-40 of it otherwise: the comparison with the integer iter_num is the
\* exact one.
EvalGateStrict(it_num, total, ep) ==
    10 * it_num > 7 * total /\ ep % 5 = 0

EvalGate(it_num, total, ep) ==
    10 * it_num >= 7 * total /\ ep % 5 = 0

\* line 253 with ties not counted
IsBestStrict(d1, pre1, d2, pre2) == (d1 > pre1) \/ (d2 > pre2)

\* line 253
IsBest(d1, pre1, d2, pre2) == (d1 >= pre1) \/ (d2 >= pre2)

\* lines 255-261, one model: the new (pre_best_dice, best_epoch)
BestUpdate(d, pre, best_ep, ep) ==
    LET new == Max(d, pre)
    IN <<new, IF d = new THEN ep ELSE best_ep>>

\* lines 129-132 and the names first bound inside the loop
FreshProc ==
    [pc |-> "load", error |-> "none",
     epoch |-> -1, i |-> 0, iter_num |-> 0, iters |-> -1,
     lr |-> Float(1, 1), ema_ratio |-> Float(0, 1),
     pre_best_dice1 |-> InitialBestDice, pre_best_dice2 |-> InitialBestDice,
     best_epoch_1 |-> 0, best_epoch_2 |-> 0,
     is_best |-> FALSE, evaluated |-> FALSE,
     mDICE1 |-> 0, mDICE2 |-> 0,
     batch |-> [valid |-> 1, conf |-> 0],
     loss_u_s |-> Float(0, 1), loss |-> Float(0, 1),
     mask_ratio |-> Float(0, 1),
     saved |-> {}]

NoCheckpoint == [exists |-> FALSE]

\* lines 263-273
Checkpoint(s) ==
    [exists |-> TRUE,
     optimizer |-> s.lr,
     epoch |-> s.epoch,
     previous_best_1 |-> s.pre_best_dice1,
     previous_best_2 |-> s.pre_best_dice2,
     best_epoch |-> s.best_epoch_1,
     best_epoch_ema |-> s.best_epoch_2,
     iter_num |-> s.iter_num]

\* a restore that leaves the iteration counter at its initial value
RestoreNoIterNum(s, ck) ==
    [s EXCEPT !.lr = ck.optimizer,
              !.epoch = ck.epoch,
              !.pre_best_dice1 = ck.previous_best_1,
              !.pre_best_dice2 = ck.previous_best_2,
              !.best_epoch_1 = ck.best_epoch,
              !.best_epoch_2 = ck.best_epoch_ema]

\* lines 134-143
Restore(s, ck) ==
    [s EXCEPT !.lr = ck.optimizer,
              !.epoch = ck.epoch,
              !.pre_best_dice1 = ck.previous_best_1,
              !.pre_best_dice2 = ck.previous_best_2,
              !.best_epoch_1 = ck.best_epoch,
              !.best_epoch_2 = ck.best_epoch_ema,
              !.iter_num = ck.iter_num]

\* zip(trainloader_l, trainloader_u) stopping with the unlabeled loader only
ZipLenUnlabeled(l, u) == u

\* line 167: zip stops with the shorter loader
ZipLen(l, u) == Min(l, u)

\* file names under cp_path (lines 274 and 276)
LatestName == <<"latest.pth">>
BestName(s) == <<"ep", s.epoch, s.mDICE1, s.mDICE2>>

\* lines 274-276: the files one pass over the two torch.save calls writes
\* (they are not under `if rank == 0`)
Writes(s) ==
    {LatestName} \cup (IF s.is_best THEN {BestName(s)} ELSE {})

Ranks == 0..(world_size - 1)

\* ---------------------------------------------------------------- Init
Shapes == (1..MaxExtent) \X (1..MaxExtent) \X (1..MaxExtent)
Patches == (1..MaxPatch) \X (1..MaxPatch) \X (1..MaxPatch)

\* the training job is not running
TrainIdle ==
    /\ world_size = 0
    /\ epochs = 0
    /\ len_l = 0
    /\ len_u = 0
    /\ total_iters = 0
    /\ proc = <<>>
    /\ latest_pth = NoCheckpoint
    /\ run = 0

\* no inference is running
InferIdle ==
    /\ pc = "idle"
    /\ shape = <<0, 0, 0>>
    /\ patch_size = <<0, 0, 0>>
    /\ stride_xy = 0
    /\ stride_z = 0
    /\ num_classes = 0
    /\ add_pad = FALSE
    /\ pad = <<<<0, 0>>, <<0, 0>>, <<0, 0>>>>
    /\ padded = <<0, 0, 0>>
    /\ steps = <<0, 0, 0>>
    /\ loop = <<0, 0, 0>>
    /\ offsets = <<>>
    /\ cnt = <<>>
    /\ score_map = [shape |-> <<0, 0, 0>>, data |-> <<>>]
    /\ label_map = [shape |-> <<0, 0, 0>>, data |-> <<>>]

\* no parameter pair is followed
EmaIdle ==
    mean_teacher = [steps |-> 0, iters |-> 0, ema_ratio |-> Float(0, 1),
                    param |-> F32Zero, param_ema |-> F32Zero,
                    before |-> F32Zero]

\* main() up to line 132, on `ws` ranks, with at most `maxEp` epochs
InitTrain(ws, maxEp) ==
    /\ InferIdle
    /\ EmaIdle
    /\ world_size = ws
    /\ epochs \in 1..maxEp
    /\ len_l \in 1..MaxLen
    /\ len_u \in 1..MaxLen
    /\ total_iters = len_u * epochs
    /\ proc = [r \in 0..(ws - 1) |-> FreshProc]
    /\ latest_pth = NoCheckpoint
    /\ run = 0

Init == InitTrain(1, MaxEpochs)

InitDist == InitTrain(2, DistEpochs)

InitInfer ==
    /\ TrainIdle
    /\ EmaIdle
    /\ pc = "pad"
    /\ shape \in Shapes
    /\ patch_size \in Patches
    /\ stride_xy \in 1..MaxStride
    /\ stride_z \in 1..MaxStride
    /\ num_classes = NumClasses
    /\ add_pad = FALSE
    /\ pad = <<<<0, 0>>, <<0, 0>>, <<0, 0>>>>
    /\ padded = shape
    /\ steps = <<0, 0, 0>>
    /\ loop = <<0, 0, 0>>
    /\ offsets = <<>>
    /\ cnt = <<>>
    /\ score_map = [shape |-> <<0, 0, 0>>, data |-> <<>>]
    /\ label_map = [shape |-> <<0, 0, 0>>, data |-> <<>>]

\* the values of a tensor element: the float32 nearest to each third up
\* to MaxParam / 3
ParamValues == {ToFloat32(k, 3) : k \in (-MaxParam)..MaxParam}

\* the global index of the first iteration followed: the first ones of a
\* run, and the ones around iters = 249, where 1 - 1 / (iters + 1)
\* reaches 0.996
StartIters == (0..MaxStartIters) \cup {248 + k : k \in 0..MaxStartIters}

\* one element of a student parameter and of its teacher parameter before
\* an iteration: the teacher is a deep copy of the student (line 88)
InitEma ==
    /\ InferIdle
    /\ TrainIdle
    /\ \E it \in StartIters, p \in ParamValues :
          mean_teacher = [steps |-> 0, iters |-> it,
                          ema_ratio |-> Float(0, 1), param |-> p,
                          param_ema |-> p, before |-> p]

\* ------------------------------------------------------------- actions
\* lines 73-104: pad the image, count the steps, zero the accumulators
Pad ==
    /\ pc = "pad"
    /\ LET ap == \E a \in 1..3 : shape[a] < patch_size[a]
           pd == PadOf(shape, patch_size)
           ps == PaddedShape(shape, pd, ap)
       IN /\ add_pad' = ap
          /\ pad' = pd
          /\ padded' = ps
          /\ steps' = [a \in 1..3 |->
                          NumOffsets(ps[a], patch_size[a], StrideOf(a))]
          /\ score_map' = [shape |-> ps,
                           data |-> [c \in 0..(num_classes - 1) |->
                                        Array3(ps, LAMBDA i, j, k : 0)]]
          /\ cnt' = Array3(ps, LAMBDA i, j, k : 0)
    /\ loop' = <<0, 0, 0>>
    /\ pc' = "tile"
    /\ UNCHANGED <<shape, patch_size, stride_xy, stride_z, num_classes,
                   offsets, label_map, trainVars, mean_teacher>>

\* lines 106-136: one iteration of the triple loop
PatchStep ==
    /\ pc = "tile"
    /\ loop[1] < steps[1]
    /\ LET o == [a \in 1..3 |->
                    Offset(loop[a], padded[a], patch_size[a], StrideOf(a))]
           win(i, j, k) == InWindow(i, j, k, o, patch_size, padded)
           y == NetClass(o)
       IN /\ offsets' = Append(offsets, o)
          /\ score_map' = [score_map EXCEPT !.data =
                [c \in 0..(num_classes - 1) |->
                    Array3(padded, LAMBDA i, j, k :
                        IF win(i, j, k) /\ c = y
                        THEN score_map.data[c][i][j][k] + 1
                        ELSE score_map.data[c][i][j][k])]]
          /\ cnt' = Array3(padded, LAMBDA i, j, k :
                        IF win(i, j, k) THEN cnt[i][j][k] + 1
                        ELSE cnt[i][j][k])
    /\ loop' = NextLoop(loop, steps)
    /\ UNCHANGED <<pc, shape, patch_size, stride_xy, stride_z, num_classes,
                   add_pad, pad, padded, steps, label_map,
                   trainVars, mean_teacher>>

\* lines 137-138: divide by the visit count, take the argmax
Normalize ==
    /\ pc = "tile"
    /\ loop[1] >= steps[1]
    /\ LET sm == [c \in 0..(num_classes - 1) |->
                    Array3(padded, LAMBDA i, j, k :
                        NpDivide(score_map.data[c][i][j][k], cnt[i][j][k]))]
       IN /\ score_map' = [shape |-> padded, data |-> sm]
          /\ label_map' = [shape |-> padded,
                           data |-> Array3(padded, LAMBDA i, j, k :
                              ArgMax([c \in 0..(num_classes - 1) |->
                                         sm[c][i][j][k]], num_classes))]
    /\ pc' = "crop"
    /\ UNCHANGED <<shape, patch_size, stride_xy, stride_z, num_classes,
                   add_pad, pad, padded, steps, loop, offsets, cnt,
                   trainVars, mean_teacher>>

\* lines 139-144: crop back to the input extent and return
CropReturn ==
    /\ pc = "crop"
    /\ IF add_pad
       THEN LET cs == CropShape(pad, shape, padded)
                lo(a) == Min(pad[a][1], padded[a])
            IN /\ label_map' = [shape |-> cs,
                                data |-> Array3(cs, LAMBDA i, j, k :
                                    label_map.data[i + lo(1)][j + lo(2)]
                                                  [k + lo(3)])]
               /\ score_map' = [shape |-> cs,
                                data |-> [c \in 0..(num_classes - 1) |->
                                    Array3(cs, LAMBDA i, j, k :
                                        score_map.data[c][i + lo(1)]
                                                      [j + lo(2)][k + lo(3)])]]
       ELSE UNCHANGED <<label_map, score_map>>
    /\ pc' = "returned"
    /\ UNCHANGED <<shape, patch_size, stride_xy, stride_z, num_classes,
                   add_pad, pad, padded, steps, loop, offsets, cnt,
                   trainVars, mean_teacher>>

\* ------------------------------------------------------ actions, training
\* lines 133-146: restore from latest.pth when it exists
LoadCheckpoint(r) ==
    /\ proc[r].pc = "load"
    /\ proc' = [proc EXCEPT ![r] =
          [(IF latest_pth.exists THEN Restore(@, latest_pth) ELSE @)
              EXCEPT !.pc = "epoch"]]
    /\ UNCHANGED <<world_size, epochs, len_l, len_u, total_iters,
                   latest_pth, run, inferVars, mean_teacher>>

\* lines 147-169: the next epoch of range(epoch + 1, cfg['epochs'])
EpochBegin(r) ==
    /\ proc[r].pc = "epoch"
    /\ proc' = [proc EXCEPT ![r] =
          IF @.epoch + 1 < epochs
          THEN [@ EXCEPT !.epoch = @ + 1, !.i = 0, !.is_best = FALSE,
                         !.evaluated = FALSE, !.pc = "train"]
          ELSE [@ EXCEPT !.pc = "done"]]
    /\ UNCHANGED <<world_size, epochs, len_l, len_u, total_iters,
                   latest_pth, run, inferVars, mean_teacher>>

\* lines 170-223: one iteration.  loss.backward() under DistributedData-
\* Parallel is a collective: a rank finishes a backward only when every
\* rank has reached it, so no rank runs an iteration ahead of a rank whose
\* iter_num is smaller.  With set_detect_anomaly(True) a nan in the backward
\* pass raises RuntimeError; line 221 divides by len(trainloader_u) // 3 on
\* rank 0.
TrainStep(r) ==
    /\ proc[r].pc = "train"
    /\ proc[r].i < ZipLen(len_l, len_u)
    /\ \A q \in Ranks : proc[q].iter_num >= proc[r].iter_num
    /\ \E b \in Batches :
         LET s == proc[r]
             lu == MaskedLoss(b)
             l == CombinedLoss(lu)
             fwd == [s EXCEPT !.batch = b, !.loss_u_s = lu, !.loss = l,
                              !.iter_num = @ + 1]
             it == s.epoch * len_u + s.i
             upd == [fwd EXCEPT !.mask_ratio = MaskRatio(b),
                                !.iters = it,
                                !.lr = LrOf(it, total_iters),
                                !.ema_ratio = EmaRatioOf(it)]
         IN proc' = [proc EXCEPT ![r] =
              IF l.nan
              THEN [fwd EXCEPT !.pc = "aborted", !.error = "RuntimeError"]
              ELSE IF r = 0 /\ len_u \div 3 = 0
              THEN [upd EXCEPT !.pc = "aborted",
                               !.error = "ZeroDivisionError"]
              ELSE [upd EXCEPT !.i = @ + 1]]
    /\ UNCHANGED <<world_size, epochs, len_l, len_u, total_iters,
                   latest_pth, run, inferVars, mean_teacher>>

\* lines 224-261: the evaluation gate at the end of the epoch's loop
EvalStep(r) ==
    /\ proc[r].pc = "train"
    /\ proc[r].i >= ZipLen(len_l, len_u)
    /\ LET s == proc[r]
       IN IF EvalGate(s.iter_num, total_iters, s.epoch)
          THEN \E d1 \in DiceValues, d2 \in DiceValues :
                 LET b1 == BestUpdate(d1, s.pre_best_dice1, s.best_epoch_1,
                                      s.epoch)
                     b2 == BestUpdate(d2, s.pre_best_dice2, s.best_epoch_2,
                                      s.epoch)
                 IN proc' = [proc EXCEPT ![r] =
                      [s EXCEPT !.evaluated = TRUE,
                                !.mDICE1 = d1, !.mDICE2 = d2,
                                !.is_best = IsBest(d1, s.pre_best_dice1,
                                                   d2, s.pre_best_dice2),
                                !.pre_best_dice1 = b1[1],
                                !.best_epoch_1 = b1[2],
                                !.pre_best_dice2 = b2[1],
                                !.best_epoch_2 = b2[2],
                                !.pc = "save"]]
          ELSE proc' = [proc EXCEPT ![r] = [s EXCEPT !.pc = "save"]]
    /\ UNCHANGED <<world_size, epochs, len_l, len_u, total_iters,
                   latest_pth, run, inferVars, mean_teacher>>

\* lines 263-279: write latest.pth, and the best snapshot when is_best
SaveCheckpoint(r) ==
    /\ proc[r].pc = "save"
    /\ latest_pth' = Checkpoint(proc[r])
    /\ proc' = [proc EXCEPT ![r] =
          [@ EXCEPT !.saved = Writes(proc[r]), !.pc = "epoch"]]
    /\ UNCHANGED <<world_size, epochs, len_l, len_u, total_iters, run,
                   inferVars, mean_teacher>>

\* the job is killed and started again; the files stay
Crash ==
    /\ run < MaxCrashes
    /\ run' = run + 1
    /\ proc' = [r \in Ranks |-> FreshProc]
    /\ UNCHANGED <<world_size, epochs, len_l, len_u, total_iters,
                   latest_pth, inferVars, mean_teacher>>

Next ==
    \/ \E r \in Ranks : LoadCheckpoint(r)
    \/ \E r \in Ranks : EpochBegin(r)
    \/ \E r \in Ranks : TrainStep(r)
    \/ \E r \in Ranks : EvalStep(r)
    \/ \E r \in Ranks : SaveCheckpoint(r)
    \/ Crash

Spec == Init /\ [][Next]_vars

SpecDist == InitDist /\ [][Next]_vars

\* lines 194 and 202-210 for one element: optimizer.step() leaves the
\* student at some value, then the teacher is updated with the ratio of
\* this iteration.  `before` keeps the teacher value the update read.
EmaStep ==
    /\ mean_teacher.steps < MaxEmaSteps
    /\ LET ratio == EmaRatioOf(mean_teacher.iters)
           r32 == ToFloat32(ratio.num, ratio.den)
           q32 == ToFloat32(ratio.den - ratio.num, ratio.den)
       IN \E p \in ParamValues :
             mean_teacher' =
                [steps |-> mean_teacher.steps + 1,
                 iters |-> mean_teacher.iters + 1,
                 ema_ratio |-> ratio,
                 param |-> p,
                 param_ema |->
                    EmaUpdate(mean_teacher.param_ema, p, r32, q32),
                 before |-> mean_teacher.param_ema]
    /\ UNCHANGED <<inferVars, trainVars>>

NextEma == EmaStep

SpecEma == InitEma /\ [][NextEma]_vars

\* -------------------------------------------------- properties, training
\* iter_num when epoch e starts in a run that is never interrupted
RECURSIVE UninterruptedStart(_)
UninterruptedStart(e) ==
    IF e = 0 THEN 0
    ELSE UninterruptedStart(e - 1) + (IF len_l < len_u THEN len_l ELSE len_u)

\* (epoch, iter_num, iters, lr, ema_ratio) after iteration k of epoch e in a
\* run that is never interrupted
Uninterrupted(e, k) ==
    LET it == e * len_u + k
    IN <<e, UninterruptedStart(e) + k + 1, it,
         Float(total_iters - it, total_iters),
         IF 1000 * it <= 996 * (it + 1) THEN Float(it, it + 1)
         ELSE Float(996, 1000)>>

Restored(s) ==
    /\ s.epoch = latest_pth.epoch
    /\ s.iter_num = latest_pth.iter_num
    /\ s.pre_best_dice1 = latest_pth.previous_best_1
    /\ s.pre_best_dice2 = latest_pth.previous_best_2
    /\ s.best_epoch_1 = latest_pth.best_epoch
    /\ s.best_epoch_2 = latest_pth.best_epoch_ema

\* C5: a process started with latest.pth present enters the epoch loop at
\* the saved epoch + 1 with iter_num and the best-metric fields as saved,
\* and after every iteration (epoch, iter_num, iters, lr, ema_ratio) are
\* the values of the uninterrupted run at that epoch and index.
C5_ResumeTrajectory ==
    \A r \in Ranks :
       LET s == proc[r]
       IN /\ (s.pc = "epoch" /\ latest_pth.exists) => Restored(s)
          /\ (s.pc = "train" /\ s.i = 0) =>
                s.epoch = (IF latest_pth.exists THEN latest_pth.epoch + 1
                           ELSE 0)
          /\ (s.pc = "train" /\ s.i >= 1) =>
                <<s.epoch, s.iter_num, s.iters, s.lr, s.ema_ratio>>
                    = Uninterrupted(s.epoch, s.i - 1)

\* a restarted process has resumed from an evaluated epoch's checkpoint
\* and is iterating again
C5_Witness ==
    /\ run >= 1
    /\ latest_pth.exists
    /\ latest_pth.epoch >= 20
    /\ latest_pth.best_epoch = 20
    /\ \E r \in Ranks :
          /\ proc[r].pc = "train"
          /\ proc[r].i >= 2
          /\ proc[r].epoch = latest_pth.epoch + 1
          /\ proc[r].best_epoch_1 = 20

\* C6: only rank 0 writes checkpoint files; no other rank writes a best
\* checkpoint, and no two ranks write the same path.
C6_OnlyCoordinatorWrites ==
    /\ \A r \in Ranks \ {0} :
          \A f \in proc[r].saved : f[1] # "ep"
    /\ \A r1 \in Ranks, r2 \in Ranks :
          r1 # r2 => proc[r1].saved \cap proc[r2].saved = {}

GateStepOf(r) == proc[r].pc = "train" /\ proc'[r].pc = "save"

BestFields(s) ==
    <<s.pre_best_dice1, s.pre_best_dice2, s.best_epoch_1, s.best_epoch_2>>

\* C7 (as claimed): at the end of an epoch the evaluation runs iff iter_num
\* exceeds 70% of total_iters and the epoch is a multiple of 5; otherwise
\* the best-metric fields stay as they are.
C7_GateExceeds ==
    [][\A r \in Ranks : GateStepOf(r) =>
         /\ proc'[r].evaluated <=>
               (10 * proc[r].iter_num > 7 * total_iters
                   /\ proc[r].epoch % 5 = 0)
         /\ ~proc'[r].evaluated => BestFields(proc'[r]) = BestFields(proc[r])
      ]_vars

\* C7 (amended): the evaluation runs iff iter_num is at least 70% of
\* total_iters and the epoch is a multiple of 5; otherwise the best-metric
\* fields stay as they are.
C7_GateAtLeast ==
    [][\A r \in Ranks : GateStepOf(r) =>
         /\ proc'[r].evaluated <=>
               (10 * proc[r].iter_num >= 7 * total_iters
                   /\ proc[r].epoch % 5 = 0)
         /\ ~proc'[r].evaluated => BestFields(proc'[r]) = BestFields(proc[r])
      ]_vars

\* an epoch was evaluated with iter_num at exactly 70% of a positive
\* total_iters
C7_Witness ==
    \E r \in Ranks :
       /\ proc[r].pc = "save"
       /\ proc[r].evaluated
       /\ proc[r].iter_num > 0
       /\ 10 * proc[r].iter_num = 7 * total_iters

SaveStepOf(r) == proc[r].pc = "save" /\ proc'[r].pc = "epoch"

\* C8: in an evaluated epoch each model's best_epoch becomes the epoch
\* exactly when its Dice >= its previous best, the previous best becomes
\* the larger of the two and never decreases while the process runs, the
\* best snapshot is written under its own name exactly when one of the
\* models is best, and latest.pth is written in every epoch.
C8_BestBookkeeping ==
    [][\A r \in Ranks :
         LET s == proc[r]
             t == proc'[r]
         IN /\ (GateStepOf(r) /\ t.evaluated) =>
                  /\ t.best_epoch_1 =
                        (IF t.mDICE1 >= s.pre_best_dice1 THEN s.epoch
                         ELSE s.best_epoch_1)
                  /\ t.best_epoch_2 =
                        (IF t.mDICE2 >= s.pre_best_dice2 THEN s.epoch
                         ELSE s.best_epoch_2)
                  /\ t.pre_best_dice1 >= s.pre_best_dice1
                  /\ t.pre_best_dice1 >= t.mDICE1
                  /\ t.pre_best_dice1 \in {s.pre_best_dice1, t.mDICE1}
                  /\ t.pre_best_dice2 >= s.pre_best_dice2
                  /\ t.pre_best_dice2 >= t.mDICE2
                  /\ t.pre_best_dice2 \in {s.pre_best_dice2, t.mDICE2}
                  /\ t.is_best <=> (t.mDICE1 >= s.pre_best_dice1
                                      \/ t.mDICE2 >= s.pre_best_dice2)
            /\ (GateStepOf(r) /\ ~t.evaluated) => ~t.is_best
            /\ run' = run =>
                  /\ t.pre_best_dice1 >= s.pre_best_dice1
                  /\ t.pre_best_dice2 >= s.pre_best_dice2
            /\ SaveStepOf(r) =>
                  /\ <<"latest.pth">> \in t.saved
                  /\ latest_pth'.exists
                  /\ latest_pth'.epoch = s.epoch
                  /\ latest_pth'.iter_num = s.iter_num
                  /\ s.is_best <=>
                        <<"ep", s.epoch, s.mDICE1, s.mDICE2>> \in t.saved
                  /\ Cardinality(t.saved) = (IF s.is_best THEN 2 ELSE 1)
      ]_vars

\* a second evaluation of a run in which the student ties its previous best
\* and the teacher falls short of the best it reached at epoch 15
C8_Witness ==
    \E r \in Ranks :
       /\ proc[r].pc = "epoch"
       /\ proc[r].epoch = 20
       /\ proc[r].iter_num > 0
       /\ proc[r].evaluated
       /\ proc[r].mDICE1 = InitialBestDice
       /\ proc[r].pre_best_dice1 = InitialBestDice
       /\ proc[r].best_epoch_1 = 20
       /\ proc[r].mDICE2 < proc[r].pre_best_dice2
       /\ proc[r].best_epoch_2 = 15
       /\ Cardinality(proc[r].saved) = 2

\* C9: an iteration whose unlabeled batch is ignored everywhere raises no
\* error and its unsupervised loss is exactly zero; no nan reaches the loss
\* or the mask ratio.
C9_AllIgnoredContributesZero ==
    \A r \in Ranks :
       proc[r].batch.valid = 0 =>
          /\ proc[r].error = "none"
          /\ ~proc[r].loss_u_s.nan
          /\ proc[r].loss_u_s.num = 0
          /\ ~proc[r].loss.nan
          /\ ~proc[r].mask_ratio.nan

\* C10 (as claimed): every epoch runs len(trainloader_u) iterations, for any
\* loader lengths: after epoch e iter_num = (e + 1) * len_u, after every
\* iteration iter_num = iters + 1, and a finished run has iter_num =
\* total_iters.
C10_EpochLengthUnlabeled ==
    \A r \in Ranks :
       LET s == proc[r]
       IN /\ s.pc = "save" =>
                /\ s.i = len_u
                /\ s.iter_num = (s.epoch + 1) * len_u
          /\ (s.iters >= 0 /\ s.error # "RuntimeError") =>
                s.iter_num = s.iters + 1
          /\ s.pc = "done" => s.iter_num = total_iters

\* C10 (amended): every epoch runs min(len(trainloader_l),
\* len(trainloader_u)) iterations; when the labeled loader is not the
\* shorter one this is len(trainloader_u), after epoch e iter_num =
\* (e + 1) * len_u, after every iteration iter_num = iters + 1, and a
\* finished run has iter_num = total_iters.
C10_EpochLengthZip ==
    \A r \in Ranks :
       LET s == proc[r]
       IN /\ s.pc = "save" =>
                /\ s.i = (IF len_l < len_u THEN len_l ELSE len_u)
                /\ s.iter_num =
                      (s.epoch + 1) * (IF len_l < len_u THEN len_l ELSE len_u)
          /\ len_l >= len_u =>
                /\ s.pc = "save" =>
                      /\ s.i = len_u
                      /\ s.iter_num = (s.epoch + 1) * len_u
                /\ (s.iters >= 0 /\ s.error # "RuntimeError") =>
                      s.iter_num = s.iters + 1
                /\ s.pc = "done" => s.iter_num = total_iters

\* a run of several epochs finished with a labeled loader longer than the
\* unlabeled one, and one with a shorter labeled loader ended an epoch
C10_Witness ==
    \E r \in Ranks :
       /\ proc[r].pc = "done"
       /\ len_l > len_u
       /\ epochs >= 2
       /\ proc[r].error = "none"
       /\ proc[r].iter_num = total_iters
       /\ proc[r].iters = total_iters - 1

\* C11: the learning rate in the optimizer after the iteration with global
\* index iters is base_lr * (1 - iters / total_iters) ^ 0.9: base_lr at
\* iters = 0, never above the rate of an earlier index, never raised while
\* the process runs, and the schedule gives 0 at iters = total_iters.
C11_LrSchedule ==
    [][\A r \in Ranks :
         LET s == proc[r]
             t == proc'[r]
         IN /\ t.iters >= 0 =>
                  /\ ~t.lr.nan
                  /\ t.lr.den > 0
                  /\ t.lr.num * total_iters =
                        (total_iters - t.iters) * t.lr.den
            /\ t.iters = 0 => t.lr.num = t.lr.den
            /\ (s.iters >= 0 /\ t.iters >= s.iters) => LrLeq(t.lr, s.lr)
            /\ (s.iters >= 0 /\ t.iters > s.iters) => ~LrLeq(s.lr, t.lr)
            /\ run' = run => LrLeq(t.lr, s.lr)
            /\ LrOf(total_iters, total_iters).num = 0
      ]_vars

\* the last iteration of a run of several epochs, in a process started
\* from a checkpoint: the rate is base_lr * (1 / total_iters) ^ 0.9
C11_Witness ==
    \E r \in Ranks :
       /\ run = 1
       /\ epochs >= 2
       /\ proc[r].error = "none"
       /\ proc[r].iters = total_iters - 1
       /\ proc[r].lr = Float(1, total_iters)
       /\ latest_pth.exists
       /\ LrLeq(proc[r].lr, latest_pth.optimizer)
       /\ ~LrLeq(latest_pth.optimizer, proc[r].lr)

\* C12: after an iteration the ratio min(1 - 1 / (iters + 1), 0.996) lies
\* in [0, 0.996]; with ratio 0.5, student 2.0 and teacher 0.0 the teacher
\* becomes 1.0; and a teacher equal to the student is left unchanged.
C12_EmaUpdate ==
    mean_teacher.steps > 0 =>
       LET m == mean_teacher
           r == m.ema_ratio
       IN /\ ~r.nan
          /\ r.den > 0
          /\ r.num >= 0
          /\ r.num * 1000 <= 996 * r.den
          /\ \/ r.num * m.iters = (m.iters - 1) * r.den
             \/ r.num * 1000 = 996 * r.den
          /\ (r.num * 2 = r.den /\ m.param = ToFloat32(2, 1)
                /\ m.before = F32Zero) => m.param_ema = ToFloat32(1, 1)
          /\ m.param = m.before => m.param_ema = m.before

NextInfer == Pad \/ PatchStep \/ Normalize \/ CropReturn

SpecInfer == InitInfer /\ [][NextInfer]_vars

\* ------------------------------------------------- properties, inference
TilingDone == pc = "tile" /\ loop[1] >= steps[1]

AllVisited == \A v \in Voxels(padded) : cnt[v[1]][v[2]][v[3]] >= 1

StridesWithinPatch ==
    /\ stride_z <= patch_size[1]
    /\ stride_xy <= patch_size[2]
    /\ stride_xy <= patch_size[3]

\* C1 (as claimed): for all volume shapes, patch shapes and positive strides,
\* when the triple loop has finished every voxel of the padded volume has
\* cnt >= 1 before the division.
C1_CoverageAnyStride == TilingDone => AllVisited

\* C1 (amended): the same, for strides that do not exceed the patch extent
\* of the axis they step along (stride_z on axis 0, stride_xy on axes 1, 2).
C1_CoverageStrideWithinPatch ==
    (TilingDone /\ StridesWithinPatch) => AllVisited

\* the loop has finished after several overlapping or abutting patches
C1_Witness ==
    /\ TilingDone
    /\ StridesWithinPatch
    /\ Len(offsets) >= 4
    /\ AllVisited
    /\ \E v \in Voxels(padded) : cnt[v[1]][v[2]][v[3]] >= 2

AxisOffsets(a) == {offsets[n][a] : n \in 1..Len(offsets)}

\* C2: every emitted offset o has 0 <= o and o + patch extent <= padded
\* extent on its axis; when the loop has finished, each axis has seen
\* ceil((padded - patch) / stride) + 1 distinct offsets and the last one
\* equals padded - patch.
C2_OffsetsInBounds ==
    /\ \A n \in 1..Len(offsets) : \A a \in 1..3 :
          /\ 0 <= offsets[n][a]
          /\ offsets[n][a] + patch_size[a] <= padded[a]
    /\ TilingDone =>
          \A a \in 1..3 :
             /\ \E m \in 0..padded[a] :
                   /\ m * StrideOf(a) >= padded[a] - patch_size[a]
                   /\ m > 0 => (m - 1) * StrideOf(a) < padded[a] - patch_size[a]
                   /\ Cardinality(AxisOffsets(a)) = m + 1
             /\ offsets[Len(offsets)][a] = padded[a] - patch_size[a]
             /\ \A o \in AxisOffsets(a) : o <= padded[a] - patch_size[a]

\* the loop has finished and an axis needed its last offset clamped
C2_Witness ==
    /\ TilingDone
    /\ \E a \in 1..3 :
          /\ Cardinality(AxisOffsets(a)) >= 2
          /\ (padded[a] - patch_size[a]) % StrideOf(a) # 0

\* C3: a voxel left with cnt = 0 when all patches are processed makes the
\* inference fail; no score map is divided by a zero count and no label map
\* is returned.
C3_CoverageErrorOnGap ==
    (pc \in {"crop", "returned"}) => AllVisited

\* C4: the returned label map has the shape of the input volume, the
\* returned score map has that shape under a class axis of num_classes, and
\* every label is in [0, num_classes).
C4_ShapeRoundTrip ==
    pc = "returned" =>
        /\ label_map.shape = shape
        /\ score_map.shape = shape
        /\ DOMAIN score_map.data = 0..(num_classes - 1)
        /\ \A c \in 0..(num_classes - 1) :
              /\ DOMAIN score_map.data[c] = 0..(shape[1] - 1)
              /\ \A i \in 0..(shape[1] - 1) :
                    /\ DOMAIN score_map.data[c][i] = 0..(shape[2] - 1)
                    /\ \A j \in 0..(shape[2] - 1) :
                          DOMAIN score_map.data[c][i][j] = 0..(shape[3] - 1)
        /\ DOMAIN label_map.data = 0..(shape[1] - 1)
        /\ \A v \in Voxels(shape) :
              label_map.data[v[1]][v[2]][v[3]] \in 0..(num_classes - 1)

\* a volume smaller than the patch on one axis and larger on another has
\* been padded, tiled, cropped and returned
C4_Witness ==
    /\ pc = "returned"
    /\ add_pad
    /\ \E a \in 1..3 : shape[a] < patch_size[a] /\ pad[a][2] > pad[a][1]
    /\ \E a \in 1..3 : shape[a] > patch_size[a]
    /\ \E v \in Voxels(shape) : label_map.data[v[1]][v[2]][v[3]] = 1

====
